---- MODULE Spec2Model ----
(***************************************************************************)
(* Model of agent.py: the per-session UserData record with its two         *)
(* accessors (set_user_info / get_user_info), the three function tools of  *)
(* Assistant (lookup_weather, set_user_data, get_user_data) and the        *)
(* entrypoint that creates one UserData per job.                           *)
(*                                                                         *)
(* The tools are `async def` bodies without any await: on the asyncio      *)
(* event loop each invocation runs from its first line to its return       *)
(* without yielding, so one invocation is one action and the interleavings *)
(* the runtime can schedule are the orders in which the actions fire.      *)
(***************************************************************************)
EXTENDS Integers, Sequences, FiniteSets, TLC

\* ---------------------------------------------------------------- bounds
MaxJobs == 2          \* job contexts the worker is handed
MaxIds  == 3          \* uuid4 values drawn in one run

Jobs      == 1..MaxJobs
Names     == {"", "ann", "bob"}
Locations == {"", "Paris"}

\* Optional values: None is the empty tuple, a present value v is <<v>>.
None    == <<>>
Some(v) == <<v>>
Ages    == {None, Some(-12), Some(0)}

VARIABLES
    userdata,   \* live job -> UserData record (ctx, name, age)
    started,    \* job contexts entrypoint has been called with
    nextId,     \* source of uuid.uuid4(): the next value it hands out; a
                \* random 122-bit draw is taken as never repeating
    issued,     \* ids of the UserInfo records returned so far
    last,       \* the most recent tool invocation: arguments and results
    lastSet,    \* live job -> arguments of its most recent set_user_info
    overwritten \* live job -> a set_user_info replaced different values

vars == <<userdata, started, nextId, issued, last, lastSet, overwritten>>

\* ------------------------------------------------------------ formatting
\* str(d) for a single decimal digit
DigitChar(d) ==
    CASE d = 0 -> "0" [] d = 1 -> "1" [] d = 2 -> "2" [] d = 3 -> "3"
      [] d = 4 -> "4" [] d = 5 -> "5" [] d = 6 -> "6" [] d = 7 -> "7"
      [] d = 8 -> "8" [] d = 9 -> "9"

RECURSIVE NatStr(_)
NatStr(n) == IF n < 10 THEN DigitChar(n)
             ELSE NatStr(n \div 10) \o DigitChar(n % 10)

\* str(i) of a Python int
IntStr(i) == IF i < 0 THEN "-" \o NatStr(-i) ELSE NatStr(i)

\* what an f-string writes for {age}: str(int), or "None" for None
Format(age) == IF age = None THEN "None" ELSE IntStr(age[1])

\* truth value of a str: non-empty
Truthy(str) == str # ""

\* ------------------------------------------------------------- UserInfo
UserInfo(id, name, age) == [id |-> id, name |-> name, age |-> age]

\* ------------------------------------------------------------- UserData
UserData_shared(ctx) ==
    IF DOMAIN userdata = {}
    THEN [ctx |-> Some(ctx), name |-> "", age |-> Some(0)]
    ELSE [userdata[CHOOSE k \in DOMAIN userdata : TRUE] EXCEPT !.ctx = Some(ctx)]

\* UserData(ctx=ctx): name = str() = "", age = int() = 0
UserData(ctx) == [ctx |-> Some(ctx), name |-> "", age |-> Some(0)]

set_user_info_keep_first(self, id, name, age) ==
    [self |-> IF Truthy(self.name) THEN self
              ELSE [self EXCEPT !.name = name, !.age = age],
     ret  |-> UserInfo(id, name, age)]

set_user_info_torn(self, id, name, age) ==
    [self |-> [self EXCEPT !.name = name],
     ret  |-> UserInfo(id, name, age)]

set_user_info_drops_ctx(self, id, name, age) ==
    [self |-> [ctx |-> None, name |-> name, age |-> age],
     ret  |-> UserInfo(id, name, age)]

set_user_info_validated(self, id, name, age) ==
    [self |-> IF Truthy(name) /\ age # None /\ age # Some(-12)
              THEN [self EXCEPT !.name = name, !.age = age] ELSE self,
     ret  |-> UserInfo(id, name, age)]

\* UserData.set_user_info: the record after the call and the value returned
set_user_info(self, id, name, age) ==
    [self |-> [self EXCEPT !.name = name, !.age = age],
     ret  |-> UserInfo(id, name, age)]

get_user_info_truthy_age(self, id) ==
    IF Truthy(self.name) /\ self.age # None /\ self.age # Some(0)
    THEN Some(UserInfo(id, self.name, self.age))
    ELSE None

get_user_info_default_name(self, id) ==
    IF self.age # None
    THEN Some(UserInfo(id, self.name, self.age))
    ELSE None

get_user_info_either(self, id) ==
    IF Truthy(self.name) \/ self.age # None
    THEN Some(UserInfo(id, self.name, self.age))
    ELSE None

get_user_info_stale_id(self, id) ==
    IF Truthy(self.name) /\ self.age # None
    THEN Some(UserInfo(1, self.name, self.age))
    ELSE None

\* UserData.get_user_info: Some(UserInfo) or None
get_user_info(self, id) ==
    IF Truthy(self.name) /\ self.age # None
    THEN Some(UserInfo(id, self.name, self.age))
    ELSE None

\* ---------------------------------------------------------- tool results
WeatherText == "sunny with a temperature of 70 degrees."

NotSetText == "I don't know your name. Please introduce your name and your age"

lookup_weather_result_unsupported(location) ==
    IF Truthy(location) THEN WeatherText ELSE "unavailable"

\* return value of Assistant.lookup_weather
lookup_weather_result(location) == WeatherText

\* return value of Assistant.set_user_data
set_user_data_result(name, age) ==
    "Okay, now I will remember your name is " \o name
        \o " and you are " \o Format(age) \o " year old."

\* return value of Assistant.get_user_data, from what get_user_info returned
get_user_data_result(user_info) ==
    IF user_info # None
    THEN "Your name: " \o user_info[1].name
            \o " and your age: " \o Format(user_info[1].age)
    ELSE NotSetText

\* ---------------------------------------------------------------- state
NoCall == [op |-> "none", job |-> 0, again |-> FALSE, name |-> "",
           age |-> None, location |-> "", info |-> None, result |-> ""]

\* the invocation before this one was the same tool on the same session
Again(op, j) == last.op = op /\ last.job = j

Init ==
    /\ userdata = << >>
    /\ started = {}
    /\ nextId = 1
    /\ issued = {}
    /\ last = NoCall
    /\ lastSet = << >>
    /\ overwritten = << >>

Live == DOMAIN userdata

\* f with the value v at key k added or replaced
With(f, k, v) == [x \in DOMAIN f \cup {k} |-> IF x = k THEN v ELSE f[x]]

\* f without key k
Without(f, k) == [x \in DOMAIN f \ {k} |-> f[x]]

\* entrypoint(ctx): a new job builds its own UserData and session; the
\* job contexts are numbered in the order the worker receives them
entrypoint(j) ==
    /\ j = Cardinality(started) + 1
    /\ started' = started \cup {j}
    /\ userdata' = With(userdata, j, UserData(j))
    /\ lastSet' = With(lastSet, j, None)
    /\ overwritten' = With(overwritten, j, FALSE)
    /\ UNCHANGED <<nextId, issued, last>>

\* the job shuts down: its session and UserData are dropped
shutdown(j) ==
    /\ j \in Live
    /\ userdata' = Without(userdata, j)
    /\ lastSet' = Without(lastSet, j)
    /\ overwritten' = Without(overwritten, j)
    /\ UNCHANGED <<started, nextId, issued, last>>

\* Assistant.lookup_weather(context, location)
lookup_weather(j, location) ==
    /\ j \in Live
    /\ last' = [op |-> "lookup_weather", job |-> j,
                again |-> Again("lookup_weather", j), name |-> "", age |-> None,
                location |-> location, info |-> None,
                result |-> lookup_weather_result(location)]
    /\ UNCHANGED <<userdata, started, nextId, issued, lastSet, overwritten>>

\* Assistant.set_user_data(context, name, age)
set_user_data(j, name, age) ==
    /\ j \in Live
    /\ nextId <= MaxIds
    /\ LET r == set_user_info(userdata[j], nextId, name, age) IN
        /\ userdata' = [userdata EXCEPT ![j] = r.self]
        /\ nextId' = nextId + 1
        /\ issued' = issued \cup {r.ret.id}
        /\ last' = [op |-> "set_user_data", job |-> j,
                    again |-> Again("set_user_data", j), name |-> name,
                    age |-> age, location |-> "", info |-> Some(r.ret),
                    result |-> set_user_data_result(name, age)]
        /\ lastSet' = [lastSet EXCEPT ![j] = Some([name |-> name, age |-> age])]
        /\ overwritten' = [overwritten EXCEPT ![j] =
                @ \/ (lastSet[j] # None
                      /\ lastSet[j][1].name # name /\ lastSet[j][1].age # age)]
    /\ UNCHANGED started

\* Assistant.get_user_data(context)
get_user_data(j) ==
    /\ j \in Live
    /\ LET user_info == get_user_info(userdata[j], nextId) IN
        /\ user_info # None => nextId <= MaxIds
        /\ nextId' = IF user_info # None THEN nextId + 1 ELSE nextId
        /\ issued' = IF user_info # None THEN issued \cup {user_info[1].id}
                     ELSE issued
        /\ last' = [op |-> "get_user_data", job |-> j,
                    again |-> Again("get_user_data", j), name |-> "",
                    age |-> None, location |-> "", info |-> user_info,
                    result |-> get_user_data_result(user_info)]
    /\ UNCHANGED <<userdata, started, lastSet, overwritten>>

Next ==
    \/ \E j \in Jobs : entrypoint(j)
    \/ \E j \in Jobs : shutdown(j)
    \/ \E j \in Jobs : \E location \in Locations : lookup_weather(j, location)
    \/ \E j \in Jobs : \E name \in Names : \E age \in Ages :
            set_user_data(j, name, age)
    \/ \E j \in Jobs : get_user_data(j)

Spec == Init /\ [][Next]_vars

TypeOK ==
    /\ Live \subseteq started
    /\ started \subseteq Jobs
    /\ nextId \in 1..(MaxIds + 1)
    /\ \A j \in Live : userdata[j].name \in Names /\ userdata[j].age \in Ages

\* ================================================================ claims
\* decimal text of the ages of the model, written out
AgeText(age) ==
    CASE age = Some(-12) -> "-12"
      [] age = Some(0)   -> "0"

NotSetLiteral == "I don't know your name. Please introduce your name and your age"

IsPresent(ud) == ud.name # "" /\ ud.age # None

\* C1: when the most recent set_user_info of a session had a non-empty name n
\* and an integer age a (0 included), a get on that session returns a present
\* profile with exactly n and a, and get_user_data answers
\* "Your name: n and your age: a".
C1_SetThenGet ==
    (last.op = "get_user_data" /\ last.job \in Live) =>
        LET s == lastSet[last.job] IN
        (s # None /\ s[1].name # "" /\ s[1].age # None) =>
            /\ last.info # None
            /\ last.info[1].name = s[1].name
            /\ last.info[1].age = s[1].age
            /\ last.result = "Your name: " \o s[1].name
                    \o " and your age: " \o AgeText(s[1].age)

C1_Witness ==
    /\ last.op = "get_user_data"
    /\ last.job \in Live
    /\ lastSet[last.job] = Some([name |-> "ann", age |-> Some(0)])
    /\ last.result = "Your name: ann and your age: 0"

\* C2: a session on which no set has run (fresh, or after gets and weather
\* lookups only) has no profile: get_user_info gives None and get_user_data
\* returns the fixed "please introduce" string as its ordinary result.
C2_FreshNotSet ==
    \A j \in Live : lastSet[j] = None =>
        /\ get_user_info(userdata[j], nextId) = None
        /\ get_user_data_result(get_user_info(userdata[j], nextId)) = NotSetLiteral
        /\ (last.op = "get_user_data" /\ last.job = j) =>
                (last.info = None /\ last.result = NotSetLiteral)

C2_Witness ==
    /\ last.op = "get_user_data"
    /\ last.again
    /\ last.job \in Live
    /\ lastSet[last.job] = None
    /\ last.result = NotSetLiteral

\* C3: last write wins: once a session has been set, its stored name and age
\* are those of the most recent set, and what get_user_info reads from them
\* carries no other name or age.
C3_LastWriteWins ==
    \A j \in Live : lastSet[j] # None =>
        /\ userdata[j].name = lastSet[j][1].name
        /\ userdata[j].age = lastSet[j][1].age
        /\ LET g == get_user_info(userdata[j], nextId) IN
            g # None => (g[1].name = lastSet[j][1].name
                         /\ g[1].age = lastSet[j][1].age)

C3_Witness ==
    /\ last.op = "get_user_data"
    /\ last.job \in Live
    /\ overwritten[last.job]
    /\ last.info # None
    /\ last.info[1].name = lastSet[last.job][1].name

\* C4: get_user_info returns a profile exactly when the stored name is
\* non-empty and the stored age is not None; get_user_data answers with the
\* name/age string in that case and with the fixed string otherwise.
C4_PresenceCheck ==
    /\ \A j \in Live :
        (get_user_info(userdata[j], nextId) # None) <=> IsPresent(userdata[j])
    /\ (last.op = "get_user_data" /\ last.job \in Live) =>
        LET ud == userdata[last.job] IN
        /\ (last.info # None) <=> IsPresent(ud)
        /\ IsPresent(ud) =>
              last.result = "Your name: " \o ud.name
                    \o " and your age: " \o AgeText(ud.age)
        /\ ~IsPresent(ud) => last.result = NotSetLiteral

C4_Witness ==
    /\ last.op = "get_user_data"
    /\ last.job \in Live
    /\ lastSet[last.job] # None
    /\ lastSet[last.job][1].name = ""
    /\ last.result = NotSetLiteral

\* C5: set_user_info validates nothing: the record it returns carries the
\* given name and age, and the stored name and age are the arguments, for
\* the empty name and for ages 0, negative and None as well.
C5_SetUnconditional ==
    last.op = "set_user_data" =>
        /\ last.info # None
        /\ last.info[1].name = last.name
        /\ last.info[1].age = last.age
        /\ last.job \in Live =>
              /\ userdata[last.job].name = last.name
              /\ userdata[last.job].age = last.age

C5_Witness ==
    /\ last.op = "set_user_data"
    /\ last.job \in Live
    /\ last.name = ""
    /\ last.age = None
    /\ overwritten[last.job]
    /\ userdata[last.job].name = ""
    /\ userdata[last.job].age = None

\* the step is one invocation of the tool op on session j
ToolStep(op, j) ==
    /\ started' = started
    /\ DOMAIN userdata' = DOMAIN userdata
    /\ last'.op = op
    /\ last'.job = j

\* the step is entrypoint creating session j
StartStep(j) == j \in started' \ started

\* C6: the record a set or a successful get returns carries an id that no
\* record returned before it carried, and the session record keeps only
\* ctx, name and age.
C6_FreshIds ==
    [][ /\ \A j \in Live :
            ((ToolStep("get_user_data", j) \/ ToolStep("set_user_data", j))
                /\ last'.info # None)
            => last'.info[1].id \notin issued
        /\ \A j \in DOMAIN userdata' :
              DOMAIN userdata'[j] = {"ctx", "name", "age"} ]_vars

C6_Witness ==
    /\ last.op = "get_user_data"
    /\ last.again
    /\ last.info # None
    /\ last.info[1].id = 3
    /\ issued = {1, 2, 3}

C8_Frame ==
    [][ \A j \in Live :
        /\ (ToolStep("get_user_data", j) \/ ToolStep("lookup_weather", j))
           => userdata' = userdata
        /\ (ToolStep("get_user_data", j)
                /\ last.op = "get_user_data" /\ last.job = j)
           => \/ last.info = None /\ last'.info = None
              \/ /\ last.info # None /\ last'.info # None
                 /\ last'.info[1].name = last.info[1].name
                 /\ last'.info[1].age = last.info[1].age
        /\ ToolStep("set_user_data", j) =>
                /\ userdata'[j].ctx = userdata[j].ctx
                /\ DOMAIN userdata'[j] = DOMAIN userdata[j]
                /\ lastSet[j] = Some([name |-> last'.name, age |-> last'.age])
                      => userdata'[j] = userdata[j] ]_vars

C8_Witness ==
    /\ last.op = "get_user_data"
    /\ last.again
    /\ last.job \in Live
    /\ last.info # None
    /\ userdata[last.job].ctx = Some(last.job)

\* C9: sessions are isolated: a set on one session changes neither the
\* record of another session nor what get_user_data would answer there, and
\* a session that entrypoint has just created is in the "not set" state
\* whatever other sessions hold or held.
C9_Isolation ==
    [][ \A j \in Jobs :
        /\ ToolStep("set_user_data", j) =>
                \A k \in Live \ {j} :
                    /\ userdata'[k] = userdata[k]
                    /\ get_user_data_result(get_user_info(userdata'[k], 0))
                         = get_user_data_result(get_user_info(userdata[k], 0))
        /\ StartStep(j) =>
                /\ get_user_info(userdata'[j], 0) = None
                /\ get_user_data_result(get_user_info(userdata'[j], 0))
                      = NotSetLiteral
                /\ \A k \in Live : userdata'[k] = userdata[k] ]_vars

C9_Witness ==
    /\ last.op = "get_user_data"
    /\ last.job \in Live
    /\ \E j \in Live \ {last.job} : IsPresent(userdata[j])
    /\ lastSet[last.job] = None
    /\ last.result = NotSetLiteral
    /\ last.job = Cardinality(started)

\* C10: no torn read: a profile a get returns is the (name, age) pair of one
\* set call on that session, the most recent one, never a name of one call
\* with the age of another or with the default age.
C10_NoTornRead ==
    (last.op = "get_user_data" /\ last.info # None /\ last.job \in Live) =>
        /\ lastSet[last.job] # None
        /\ [name |-> last.info[1].name, age |-> last.info[1].age]
              = lastSet[last.job][1]

C10_Witness ==
    /\ last.op = "get_user_data"
    /\ last.info # None
    /\ last.job \in Live
    /\ overwritten[last.job]
    /\ last.info[1].name = "bob"
    /\ last.info[1].age = Some(0)
    /\ lastSet[last.job] = Some([name |-> "bob", age |-> Some(0)])

====
